---- MODULE Spec2Model ----
(***************************************************************************)
(* Model of the two firmware probes of the fault-injection rig:            *)
(*   - projects/rp2040-glitching/rpi-program/main.cpp  (RP2040 probe)      *)
(*   - projects/stm8l/profiling/check_empty.c          (STM8L probe)       *)
(* Each program is a sequential machine; pc / spc hold the position of the *)
(* program, one action per statement or instruction.  The host and the USB *)
(* link are the environment.  No fault is injected in this model.          *)
(***************************************************************************)
EXTENDS Integers, Sequences, FiniteSets, TLC

\* ---------------------------------------------------------------- bounds
\* number of lines the host sends in one run
MaxLines == 2

\* number of failed reads of std::cin followed in one run
MaxFailedReads == 2

\* contents a host line may have (the empty line included)
LineContents == {"", "go"}

\* the two values PRIMASK may hold when main starts measuring
MaskValues == {0, 1}

\* ------------------------------------------------ RP2040: main.cpp 11..19
add1 == <<"add">>
add2 == add1 \o add1
add4 == add2 \o add2
add8 == add4 \o add4
add16 == add8 \o add8
add32 == add16 \o add16
add64 == add32 \o add32
add128 == add64 \o add64
\* one doubling short: 192 increments
add256_Short == add128 \o add64
add256 == add128 \o add128

\* the inline assembly block of unrolled_loop, one element per instruction
AsmBlock == <<"ldr">> \o add256 \o <<"str">>

VARIABLES
  pc,        \* position of the RP2040 program
  usb,       \* stdio_usb_connected()
  rx,        \* lines sent by the host, not yet read by std::getline
  hostSent,  \* number of lines the host has sent
  line,      \* std::string line
  led,       \* level of PICO_DEFAULT_LED_PIN
  gpio0,     \* level of GPIO 0
  PRIMASK,   \* the core's interrupt mask register (1 = interrupts disabled)
  primask,   \* main's local snapshot of PRIMASK
  ip,        \* index of the next instruction of AsmBlock
  r0,        \* register r0
  cnt,       \* unrolled_loop's local 'counter'
  counter,   \* main's local 'counter'
  obuf,      \* std::cout, not yet flushed
  sent,      \* lines flushed to the host
  nLines,    \* number of lines std::getline has delivered
  cinGood,   \* std::cin.good(): no read of std::cin has failed yet
  maskAtSave,\* PRIMASK as it was when the last MRS executed
  trace,     \* operations of the current measurement cycle, in order
  spc, A, Z, I, CLK_PCKENR1, PB_DDR, PB_CR1, PB_CR2, PB_ODR,
  mem8000, mem480b, ALWAYS_SUCCESS, strace

rpVars == <<pc, usb, rx, hostSent, line, led, gpio0, PRIMASK, primask, ip, r0,
            cnt, counter, obuf, sent, nLines, cinGood, maskAtSave, trace>>
stmVars == <<spc, A, Z, I, CLK_PCKENR1, PB_DDR, PB_CR1, PB_CR2, PB_ODR,
             mem8000, mem480b, ALWAYS_SUCCESS, strace>>
vars == <<rpVars, stmVars>>

\* ------------------------------------------------------ decimal printing
RECURSIVE Digits(_)
Digits(n) == IF n < 10 THEN <<n>> ELSE Digits(n \div 10) \o <<n % 10>>

\* operator<<(int): the decimal digits, with a sign for a negative value
Dec(n) == IF n < 0 THEN <<"-">> \o Digits(-n) ELSE Digits(n)

\* the reply line of main.cpp:92
ReplyLine(c) == <<"XXX", Dec(c), "YYY", Dec(c), "ZZZ">>

Banner == <<"RP2040 Test Program">>
Prompt == <<"send something to start the counter.">>

\* values r0 may hold when the inline assembly is entered (r0 is a scratch
\* register: whatever the preceding gpio_put call left there)
R0Garbage == {0, 1, 256}

\* the STM8L probe is a separate device; it is powered off in the RP2040 runs
StmOff ==
  /\ spc = "off" /\ A = 0 /\ Z = FALSE /\ I = FALSE
  /\ CLK_PCKENR1 = 0 /\ PB_DDR = 0 /\ PB_CR1 = 0 /\ PB_CR2 = 0 /\ PB_ODR = 0
  /\ mem8000 = 0 /\ mem480b = 0 /\ ALWAYS_SUCCESS = FALSE /\ strace = <<>>

\* ---------------------------------------------------- RP2040: reset state
InitRP ==
  /\ pc = "setup"
  /\ usb = FALSE
  /\ rx = <<>>
  /\ hostSent = 0
  /\ line = ""
  /\ led = 0
  /\ gpio0 = 0
  /\ PRIMASK \in MaskValues
  /\ primask = 0
  /\ ip = 1
  /\ r0 = 0
  /\ cnt = 0
  /\ counter = 0
  /\ obuf = <<>>
  /\ sent = <<>>
  /\ nLines = 0
  /\ cinGood = TRUE
  /\ maskAtSave = PRIMASK
  /\ trace = <<>>

\* ------------------------------------------------- RP2040: the environment
UsbConnect ==
  /\ ~usb
  /\ usb' = TRUE
  /\ UNCHANGED <<pc, rx, hostSent, line, led, gpio0, PRIMASK, primask, ip, r0,
                 cnt, counter, obuf, sent, nLines, maskAtSave, trace,
                 cinGood, stmVars>>

UsbDisconnect ==
  /\ usb
  /\ usb' = FALSE
  /\ UNCHANGED <<pc, rx, hostSent, line, led, gpio0, PRIMASK, primask, ip, r0,
                 cnt, counter, obuf, sent, nLines, maskAtSave, trace,
                 cinGood, stmVars>>

\* the host writes one newline-terminated line to the serial port
HostSend ==
  /\ usb
  /\ hostSent < MaxLines
  /\ \E c \in LineContents : rx' = Append(rx, c)
  /\ hostSent' = hostSent + 1
  /\ UNCHANGED <<pc, usb, line, led, gpio0, PRIMASK, primask, ip, r0,
                 cnt, counter, obuf, sent, nLines, maskAtSave, trace,
                 cinGood, stmVars>>

\* ------------------------------------------------------ RP2040: functions
\* MRS %0, PRIMASK
save_mrs ==
  /\ primask' = PRIMASK
  /\ UNCHANGED PRIMASK

\* the mask is read but interrupts are left as they were
save_cpsid_Missing ==
  /\ PRIMASK' = PRIMASK
  /\ UNCHANGED primask

\* CPSID i
save_cpsid ==
  /\ PRIMASK' = 1
  /\ UNCHANGED primask

\* interrupts are enabled whatever the snapshot holds
restore_interrupts_Enable ==
  /\ PRIMASK' = 0
  /\ UNCHANGED primask

\* MSR PRIMASK, %0
restore_interrupts ==
  /\ PRIMASK' = primask
  /\ UNCHANGED primask

\* gpio_put(PICO_DEFAULT_LED_PIN, v)
gpio_put_led(v) == led' = v /\ UNCHANGED gpio0

\* gpio_put(0, v)
gpio_put_0(v) == gpio0' = v /\ UNCHANGED led

\* ------------------------------------------------------- RP2040: main()
\* main.cpp 66..73: stdio and the two pins are initialised, both pins low
Setup ==
  /\ pc = "setup"
  /\ led' = 0 /\ gpio0' = 0
  /\ pc' = "wait"
  /\ UNCHANGED <<usb, rx, hostSent, line, PRIMASK, primask, ip, r0,
                 cnt, counter, obuf, sent, nLines, maskAtSave, trace,
                 cinGood, stmVars>>

\* the loop condition inverted: the wait ends while USB is not connected
WaitTest_Inverted ==
  /\ pc = "wait"
  /\ pc' = IF usb THEN "blink_on" ELSE "banner"
  /\ UNCHANGED <<usb, rx, hostSent, line, led, gpio0, PRIMASK, primask, ip, r0,
                 cnt, counter, obuf, sent, nLines, maskAtSave, trace,
                 cinGood, stmVars>>

\* main.cpp 75: while (!stdio_usb_connected())
WaitTest ==
  /\ pc = "wait"
  /\ pc' = IF usb THEN "banner" ELSE "blink_on"
  /\ UNCHANGED <<usb, rx, hostSent, line, led, gpio0, PRIMASK, primask, ip, r0,
                 cnt, counter, obuf, sent, nLines, maskAtSave, trace,
                 cinGood, stmVars>>

\* main.cpp 76
BlinkOn ==
  /\ pc = "blink_on"
  /\ gpio_put_led(1)
  /\ pc' = "sleep_on"
  /\ UNCHANGED <<usb, rx, hostSent, line, PRIMASK, primask, ip, r0,
                 cnt, counter, obuf, sent, nLines, maskAtSave, trace,
                 cinGood, stmVars>>

\* main.cpp 77
SleepOn ==
  /\ pc = "sleep_on"
  /\ pc' = "blink_off"
  /\ UNCHANGED <<usb, rx, hostSent, line, led, gpio0, PRIMASK, primask, ip, r0,
                 cnt, counter, obuf, sent, nLines, maskAtSave, trace,
                 cinGood, stmVars>>

\* main.cpp 78
BlinkOff ==
  /\ pc = "blink_off"
  /\ gpio_put_led(0)
  /\ pc' = "sleep_off"
  /\ UNCHANGED <<usb, rx, hostSent, line, PRIMASK, primask, ip, r0,
                 cnt, counter, obuf, sent, nLines, maskAtSave, trace,
                 cinGood, stmVars>>

\* main.cpp 79
SleepOff ==
  /\ pc = "sleep_off"
  /\ pc' = "wait"
  /\ UNCHANGED <<usb, rx, hostSent, line, led, gpio0, PRIMASK, primask, ip, r0,
                 cnt, counter, obuf, sent, nLines, maskAtSave, trace,
                 cinGood, stmVars>>

\* main.cpp 82: the banner line; std::endl ends the line and flushes
PrintBanner ==
  /\ pc = "banner"
  /\ sent' = sent \o obuf \o <<Banner>>
  /\ obuf' = <<>>
  /\ pc' = "prompt"
  /\ UNCHANGED <<usb, rx, hostSent, line, led, gpio0, PRIMASK, primask, ip, r0,
                 cnt, counter, nLines, maskAtSave, trace,
                 cinGood, stmVars>>

\* main.cpp 84
PrintPrompt ==
  /\ pc = "prompt"
  /\ sent' = sent \o obuf \o <<Prompt>>
  /\ obuf' = <<>>
  /\ pc' = "getline"
  /\ UNCHANGED <<usb, rx, hostSent, line, led, gpio0, PRIMASK, primask, ip, r0,
                 cnt, counter, nLines, maskAtSave, trace,
                 cinGood, stmVars>>

\* the line is read and the measurement starts without the save
GetLine_NoSave ==
  /\ pc = "getline"
  /\ cinGood
  /\ rx # <<>>
  /\ line' = Head(rx)
  /\ rx' = Tail(rx)
  /\ nLines' = nLines + 1
  /\ trace' = <<>>
  /\ pc' = "loop_init"
  /\ UNCHANGED <<usb, hostSent, led, gpio0, PRIMASK, primask, ip, r0,
                 cnt, counter, obuf, sent, maskAtSave,
                 cinGood, stmVars>>

\* main.cpp 87..88: std::getline on a good stream blocks until the host has
\* sent a line and delivers it
GetLine ==
  /\ pc = "getline"
  /\ cinGood
  /\ rx # <<>>
  /\ line' = Head(rx)
  /\ rx' = Tail(rx)
  /\ nLines' = nLines + 1
  /\ trace' = <<>>
  /\ pc' = "save_mrs"
  /\ UNCHANGED <<usb, hostSent, led, gpio0, PRIMASK, primask, ip, r0,
                 cnt, counter, obuf, sent, maskAtSave,
                 cinGood, stmVars>>

\* main.cpp 89, save_and_disable_interrupts: MRS
SaveMrs ==
  /\ pc = "save_mrs"
  /\ maskAtSave' = PRIMASK
  /\ save_mrs
  /\ trace' = Append(trace, "MRS")
  /\ pc' = "save_cpsid"
  /\ UNCHANGED <<usb, rx, hostSent, line, led, gpio0, ip, r0,
                 cnt, counter, obuf, sent, nLines,
                 cinGood, stmVars>>

\* main.cpp 89, save_and_disable_interrupts: CPSID i
SaveCpsid ==
  /\ pc = "save_cpsid"
  /\ save_cpsid
  /\ trace' = Append(trace, "CPSID")
  /\ pc' = "loop_init"
  /\ UNCHANGED <<usb, rx, hostSent, line, led, gpio0, ip, r0,
                 cnt, counter, obuf, sent, nLines, maskAtSave,
                 cinGood, stmVars>>

\* main.cpp 44: uint32_t counter = 0
LoopInit ==
  /\ pc = "loop_init"
  /\ cnt' = 0
  /\ pc' = "led_high"
  /\ UNCHANGED <<usb, rx, hostSent, line, led, gpio0, PRIMASK, primask, ip, r0,
                 counter, obuf, sent, nLines, maskAtSave, trace,
                 cinGood, stmVars>>

\* main.cpp 46
LedHigh ==
  /\ pc = "led_high"
  /\ gpio_put_led(1)
  /\ trace' = Append(trace, "LED=1")
  /\ pc' = "gpio0_high"
  /\ UNCHANGED <<usb, rx, hostSent, line, PRIMASK, primask, ip, r0,
                 cnt, counter, obuf, sent, nLines, maskAtSave,
                 cinGood, stmVars>>

\* main.cpp 47; the call leaves an arbitrary value in the scratch register
Gpio0High ==
  /\ pc = "gpio0_high"
  /\ gpio_put_0(1)
  /\ r0' \in R0Garbage
  /\ ip' = 1
  /\ trace' = Append(trace, "GPIO0=1")
  /\ pc' = "asm"
  /\ UNCHANGED <<usb, rx, hostSent, line, PRIMASK, primask,
                 cnt, counter, obuf, sent, nLines, maskAtSave,
                 cinGood, stmVars>>

\* where the program goes after the instruction at index i of the block
AfterInstr(i) == IF i = Len(AsmBlock) THEN "gpio0_low" ELSE "asm"

\* r0 is not zeroed: the count starts from what the register held
AsmLdr_Missing ==
  /\ pc = "asm" /\ ip <= Len(AsmBlock) /\ AsmBlock[ip] = "ldr"
  /\ r0' = r0
  /\ ip' = ip + 1
  /\ trace' = Append(trace, "ldr")
  /\ pc' = AfterInstr(ip)
  /\ UNCHANGED <<usb, rx, hostSent, line, led, gpio0, PRIMASK, primask,
                 cnt, counter, obuf, sent, nLines, maskAtSave,
                 cinGood, stmVars>>

\* main.cpp 50: ldr r0, =0
AsmLdr ==
  /\ pc = "asm" /\ ip <= Len(AsmBlock) /\ AsmBlock[ip] = "ldr"
  /\ r0' = 0
  /\ ip' = ip + 1
  /\ trace' = Append(trace, "ldr")
  /\ pc' = AfterInstr(ip)
  /\ UNCHANGED <<usb, rx, hostSent, line, led, gpio0, PRIMASK, primask,
                 cnt, counter, obuf, sent, nLines, maskAtSave,
                 cinGood, stmVars>>

\* main.cpp 51: add r0, r0, #1
AsmAdd ==
  /\ pc = "asm" /\ ip <= Len(AsmBlock) /\ AsmBlock[ip] = "add"
  /\ r0' = r0 + 1
  /\ ip' = ip + 1
  /\ trace' = Append(trace, "add")
  /\ pc' = AfterInstr(ip)
  /\ UNCHANGED <<usb, rx, hostSent, line, led, gpio0, PRIMASK, primask,
                 cnt, counter, obuf, sent, nLines, maskAtSave,
                 cinGood, stmVars>>

\* main.cpp 52: str r0, %[cnt]
AsmStr ==
  /\ pc = "asm" /\ ip <= Len(AsmBlock) /\ AsmBlock[ip] = "str"
  /\ cnt' = r0
  /\ ip' = ip + 1
  /\ trace' = Append(trace, "str")
  /\ pc' = AfterInstr(ip)
  /\ UNCHANGED <<usb, rx, hostSent, line, led, gpio0, PRIMASK, primask, r0,
                 counter, obuf, sent, nLines, maskAtSave,
                 cinGood, stmVars>>

\* the two falling edges swapped: the LED pin is driven low first
Gpio0Low_Swapped ==
  /\ pc = "gpio0_low"
  /\ gpio_put_led(0)
  /\ trace' = Append(trace, "LED=0")
  /\ pc' = "led_low"
  /\ UNCHANGED <<usb, rx, hostSent, line, PRIMASK, primask, ip, r0,
                 cnt, counter, obuf, sent, nLines, maskAtSave,
                 cinGood, stmVars>>

\* main.cpp 58
Gpio0Low ==
  /\ pc = "gpio0_low"
  /\ gpio_put_0(0)
  /\ trace' = Append(trace, "GPIO0=0")
  /\ pc' = "led_low"
  /\ UNCHANGED <<usb, rx, hostSent, line, PRIMASK, primask, ip, r0,
                 cnt, counter, obuf, sent, nLines, maskAtSave,
                 cinGood, stmVars>>

\* the LED pin is not driven low at the end of the measurement
LedLow_Skipped ==
  /\ pc = "led_low"
  /\ UNCHANGED <<led, gpio0>>
  /\ trace' = Append(trace, "LED=0")
  /\ pc' = "loop_return"
  /\ UNCHANGED <<usb, rx, hostSent, line, PRIMASK, primask, ip, r0,
                 cnt, counter, obuf, sent, nLines, maskAtSave,
                 cinGood, stmVars>>

\* main.cpp 59
LedLow ==
  /\ pc = "led_low"
  /\ gpio_put_led(0)
  /\ trace' = Append(trace, "LED=0")
  /\ pc' = "loop_return"
  /\ UNCHANGED <<usb, rx, hostSent, line, PRIMASK, primask, ip, r0,
                 cnt, counter, obuf, sent, nLines, maskAtSave,
                 cinGood, stmVars>>

\* main.cpp 61 and 90: int counter = unrolled_loop()
LoopReturn ==
  /\ pc = "loop_return"
  /\ counter' = cnt
  /\ r0' = cnt
  /\ pc' = "restore"
  /\ UNCHANGED <<usb, rx, hostSent, line, led, gpio0, PRIMASK, primask, ip,
                 cnt, obuf, sent, nLines, maskAtSave, trace,
                 cinGood, stmVars>>

\* main.cpp 91
Restore ==
  /\ pc = "restore"
  /\ restore_interrupts
  /\ trace' = Append(trace, "MSR")
  /\ pc' = "reply"
  /\ UNCHANGED <<usb, rx, hostSent, line, led, gpio0, ip, r0,
                 cnt, counter, obuf, sent, nLines, maskAtSave,
                 cinGood, stmVars>>

\* the reply ends with a newline character only and is left in the buffer
\* when the next line is read
Reply_Buffered ==
  /\ pc = "reply"
  /\ obuf' = Append(obuf, ReplyLine(counter))
  /\ pc' = "getline"
  /\ UNCHANGED <<usb, rx, hostSent, line, led, gpio0, PRIMASK, primask, ip, r0,
                 cnt, counter, sent, nLines, maskAtSave, trace,
                 cinGood, stmVars>>

\* the reply line is written twice
Reply_Twice ==
  /\ pc = "reply"
  /\ sent' = sent \o obuf \o <<ReplyLine(counter), ReplyLine(counter)>>
  /\ obuf' = <<>>
  /\ pc' = "flush"
  /\ UNCHANGED <<usb, rx, hostSent, line, led, gpio0, PRIMASK, primask, ip, r0,
                 cnt, counter, nLines, maskAtSave, trace,
                 cinGood, stmVars>>

\* main.cpp 92: the reply line; std::endl ends the line and flushes
Reply ==
  /\ pc = "reply"
  /\ sent' = sent \o obuf \o <<ReplyLine(counter)>>
  /\ obuf' = <<>>
  /\ pc' = "flush"
  /\ UNCHANGED <<usb, rx, hostSent, line, led, gpio0, PRIMASK, primask, ip, r0,
                 cnt, counter, nLines, maskAtSave, trace,
                 cinGood, stmVars>>

\* the loop is left after the first measurement
Flush_Break ==
  /\ pc = "flush"
  /\ sent' = sent \o obuf
  /\ obuf' = <<>>
  /\ pc' = "exit"
  /\ UNCHANGED <<usb, rx, hostSent, line, led, gpio0, PRIMASK, primask, ip, r0,
                 cnt, counter, nLines, maskAtSave, trace,
                 cinGood, stmVars>>

\* the connection is tested again at the end of each iteration
Flush_Recheck ==
  /\ pc = "flush"
  /\ sent' = sent \o obuf
  /\ obuf' = <<>>
  /\ pc' = IF usb THEN "getline" ELSE "wait"
  /\ UNCHANGED <<usb, rx, hostSent, line, led, gpio0, PRIMASK, primask, ip, r0,
                 cnt, counter, nLines, maskAtSave, trace,
                 cinGood, stmVars>>

\* main.cpp 93: std::cout << std::flush, then back to the head of the loop
Flush ==
  /\ pc = "flush"
  /\ sent' = sent \o obuf
  /\ obuf' = <<>>
  /\ pc' = "getline"
  /\ UNCHANGED <<usb, rx, hostSent, line, led, gpio0, PRIMASK, primask, ip, r0,
                 cnt, counter, nLines, maskAtSave, trace,
                 cinGood, stmVars>>

Next ==
  \/ UsbConnect \/ UsbDisconnect \/ HostSend
  \/ Setup \/ WaitTest \/ BlinkOn \/ SleepOn \/ BlinkOff \/ SleepOff
  \/ PrintBanner \/ PrintPrompt \/ GetLine
  \/ SaveMrs \/ SaveCpsid \/ LoopInit \/ LedHigh \/ Gpio0High
  \/ AsmLdr \/ AsmAdd \/ AsmStr
  \/ Gpio0Low \/ LedLow \/ LoopReturn \/ Restore \/ Reply \/ Flush

Init == InitRP /\ StmOff
Spec == Init /\ [][Next]_vars

\* the steps of the program itself (the processor keeps executing them)
Program ==
  \/ Setup \/ WaitTest \/ BlinkOn \/ SleepOn \/ BlinkOff \/ SleepOff
  \/ PrintBanner \/ PrintPrompt \/ GetLine
  \/ SaveMrs \/ SaveCpsid \/ LoopInit \/ LedHigh \/ Gpio0High
  \/ AsmLdr \/ AsmAdd \/ AsmStr
  \/ Gpio0Low \/ LedLow \/ LoopReturn \/ Restore \/ Reply \/ Flush

\* the processor never stops: an enabled program step is eventually taken
FairSpec == Init /\ [][Next]_vars /\ WF_vars(Program)

\* main.cpp 87..88 when the read fails: std::getline meets the end of the
\* stream (or the stream has already failed), sets the fail bit and returns
\* with an empty line; main does not test the stream and goes on to line 89.
\* Once failed, the stream stays failed (nothing calls clear()).
GetLineFail ==
  /\ pc = "getline"
  /\ ~cinGood \/ rx = <<>>
  /\ Len(sent) - 2 - nLines < MaxFailedReads
  /\ cinGood' = FALSE
  /\ line' = ""
  /\ trace' = <<>>
  /\ pc' = "save_mrs"
  /\ UNCHANGED <<usb, rx, hostSent, nLines, led, gpio0, PRIMASK, primask, ip,
                 r0, cnt, counter, obuf, sent, maskAtSave, stmVars>>

\* the probe on a standard input that can reach its end
NextEof == Next \/ GetLineFail
SpecEof == Init /\ [][NextEof]_vars

\* ------------------------------------------------------------------------
\* Properties of the RP2040 probe
\* ------------------------------------------------------------------------
\* the unroll count the specification fixes
N == 256

InTrace(e) == \E i \in DOMAIN trace : trace[i] = e
Pos(e) == IF InTrace(e) THEN CHOOSE i \in DOMAIN trace : trace[i] = e ELSE 0
Count(e) == Cardinality({i \in DOMAIN trace : trace[i] = e})

IsPrefix(s, t) == Len(s) <= Len(t) /\ \A i \in DOMAIN s : s[i] = t[i]

IsReply(l) == Len(l) = 5 /\ l[1] = "XXX"
Replies == {i \in DOMAIN sent : IsReply(sent[i])}

\* positions of main between the return of std::getline and the reply
Measuring == {"save_mrs", "save_cpsid", "loop_init", "led_high", "gpio0_high",
              "asm", "gpio0_low", "led_low", "loop_return", "restore", "reply"}
\* positions of main once a measurement has been reported
Reported == {"flush", "getline"}

C2_CounterIsN ==
  /\ Len(add256) = N
  /\ (pc = "asm" /\ ip > 1) => r0 = Count("add")
  /\ pc \in {"gpio0_low", "led_low", "loop_return"} => cnt = N /\ Count("add") = N
  /\ pc \in {"restore", "reply", "flush"} => counter = N
  /\ \A i \in Replies :
       /\ sent[i] = <<"XXX", <<2, 5, 6>>, "YYY", <<2, 5, 6>>, "ZZZ">>
       /\ sent[i][2] = sent[i][4]

C2_Witness ==
  pc = "flush" /\ counter = N /\ IsReply(sent[Len(sent)])

\* the pin writes and workload operations of the cycle, in order
Observable == SelectSeq(trace, LAMBDA e : e \notin {"MRS", "CPSID", "MSR"})
Workload == <<"ldr">> \o [i \in 1..N |-> "add"] \o <<"str">>
ExpectedOrder == <<"LED=1", "GPIO0=1">> \o Workload \o <<"GPIO0=0", "LED=0">>
Level(pin) == IF InTrace(pin \o "=1") /\ ~InTrace(pin \o "=0") THEN 1 ELSE 0

\* C3: in every measurement the events occur in the order LED high, GPIO0
\* high, workload (zero, 256 increments, store), GPIO0 low, LED low, with no
\* other write to the two pins in between.
C3_EventOrder ==
  /\ IsPrefix(Observable, ExpectedOrder)
  /\ pc \in {"loop_return", "restore", "reply", "flush"} => Observable = ExpectedOrder
  /\ pc \in Measuring => led = Level("LED") /\ gpio0 = Level("GPIO0")

C3_Witness ==
  pc = "loop_return" /\ Observable = ExpectedOrder /\ led = 0 /\ gpio0 = 0

\* C4 as stated: both trigger pins are driven high before the interrupt mask
\* is saved and interrupts are disabled, and driven low after the mask is
\* restored.
C4_PinsOutsideCriticalSection ==
  /\ InTrace("MRS") =>
       /\ InTrace("LED=1") /\ Pos("LED=1") < Pos("MRS")
       /\ InTrace("GPIO0=1") /\ Pos("GPIO0=1") < Pos("MRS")
  /\ InTrace("GPIO0=0") => InTrace("MSR") /\ Pos("MSR") < Pos("GPIO0=0")
  /\ InTrace("LED=0") => InTrace("MSR") /\ Pos("MSR") < Pos("LED=0")

\* C4 amended: both trigger pins are driven high after the interrupt mask has
\* been saved and interrupts disabled, and driven low before the mask is
\* restored: the pin writes lie inside the critical section.
C4_PinsInsideCriticalSection ==
  /\ InTrace("LED=1") => InTrace("CPSID") /\ Pos("MRS") < Pos("CPSID")
                         /\ Pos("CPSID") < Pos("LED=1")
  /\ InTrace("GPIO0=1") => InTrace("CPSID") /\ Pos("CPSID") < Pos("GPIO0=1")
  /\ InTrace("MSR") =>
       /\ InTrace("GPIO0=0") /\ Pos("GPIO0=0") < Pos("MSR")
       /\ InTrace("LED=0") /\ Pos("LED=0") < Pos("MSR")
  /\ (pc \in Measuring /\ (led = 1 \/ gpio0 = 1)) => ~InTrace("MSR")

C4_Witness ==
  pc = "reply" /\ InTrace("LED=1") /\ InTrace("GPIO0=1") /\ InTrace("MSR")

\* the operations executed since the rising edge of GPIO0, up to its falling
\* edge when that has happened
Window ==
  IF ~InTrace("GPIO0=1") THEN <<>>
  ELSE SubSeq(trace, Pos("GPIO0=1") + 1,
              IF InTrace("GPIO0=0") THEN Pos("GPIO0=0") - 1 ELSE Len(trace))

\* C5: while GPIO0 is high interrupts are disabled, and the window between the
\* two edges of GPIO0 holds exactly N+2 operations: one load of zero, N
\* increments, one store.
C5_Window ==
  /\ gpio0 = 1 => PRIMASK = 1
  /\ IsPrefix(Window, Workload)
  /\ InTrace("GPIO0=0") => Window = Workload /\ Len(Window) = N + 2

C5_Witness ==
  pc = "led_low" /\ gpio0 = 0 /\ Len(Window) = N + 2 /\ maskAtSave = 0

\* C6: each save is followed by exactly one restore before the next save, and
\* after the restore PRIMASK holds the value it had just before the save,
\* whether interrupts were enabled or already disabled.
C6_SaveRestorePaired ==
  /\ Count("MRS") <= 1 /\ Count("CPSID") <= Count("MRS")
  /\ Count("MSR") <= Count("CPSID")
  /\ InTrace("MSR") => Pos("CPSID") < Pos("MSR")
  /\ (pc \in {"reply", "flush"} \/ (pc = "getline" /\ nLines > 0)) =>
       /\ Count("MRS") = 1 /\ Count("CPSID") = 1 /\ Count("MSR") = 1
       /\ PRIMASK = maskAtSave
  /\ (pc \in Measuring \ {"save_mrs", "save_cpsid", "reply"}) =>
       /\ Count("CPSID") = 1 /\ Count("MSR") = 0
       /\ PRIMASK = 1 /\ primask = maskAtSave

C6_Witness ==
  pc = "reply" /\ nLines = MaxLines /\ maskAtSave = 1 /\ PRIMASK = 1
  /\ Count("MSR") = 1

\* ------------------------------------------------------------------------
\* STM8L probe: check_empty.c
\* ------------------------------------------------------------------------
Byte == 0..255

\* check_empty.c 4..6
TRIG_PIN == 2^1
SUCCESS_PIN == 2^4
EXPECTED_PIN == 2^5

Bit(x, k) == (x \div 2^k) % 2

\* bitwise or of two bytes
RECURSIVE BitOr(_, _)
BitOr(a, b) ==
  IF a = 0 THEN b
  ELSE IF b = 0 THEN a
  ELSE 2 * BitOr(a \div 2, b \div 2) + (IF a % 2 = 1 \/ b % 2 = 1 THEN 1 ELSE 0)

\* the byte is overwritten with the bit instead of or-ed with it
bset_Assign(x, k) == 2^k

\* bset: set bit k of a byte in memory, the other bits keep their value
bset(x, k) == BitOr(x, 2^k)

\* the RP2040 probe is a separate device; it is powered off in the STM8L runs
RpOff ==
  /\ pc = "off" /\ usb = FALSE /\ rx = <<>> /\ hostSent = 0 /\ line = ""
  /\ led = 0 /\ gpio0 = 0 /\ PRIMASK = 0 /\ primask = 0 /\ ip = 1 /\ r0 = 0
  /\ cnt = 0 /\ counter = 0 /\ obuf = <<>> /\ sent = <<>> /\ nLines = 0
  /\ cinGood = TRUE /\ maskAtSave = 0 /\ trace = <<>>

\* reset state: the port B registers hold their reset value 0x00, the two
\* probe bytes and the build option are the inputs of the run
InitStm ==
  /\ spc = "clk"
  /\ A = 0 /\ Z = FALSE /\ I = FALSE
  /\ CLK_PCKENR1 = 0 /\ PB_DDR = 0 /\ PB_CR1 = 0 /\ PB_CR2 = 0 /\ PB_ODR = 0
  /\ mem8000 \in Byte
  /\ mem480b \in Byte
  /\ ALWAYS_SUCCESS \in BOOLEAN
  /\ strace = <<>>

\* check_empty.c 10
ClkEnable ==
  /\ spc = "clk"
  /\ CLK_PCKENR1' = 255
  /\ spc' = "ddr"
  /\ UNCHANGED <<A, Z, I, PB_DDR, PB_CR1, PB_CR2, PB_ODR, mem8000, mem480b,
                 ALWAYS_SUCCESS, strace,
                 rpVars>>

\* check_empty.c 13
SetDdr ==
  /\ spc = "ddr"
  /\ PB_DDR' = BitOr(PB_DDR, BitOr(TRIG_PIN, BitOr(SUCCESS_PIN, EXPECTED_PIN)))
  /\ spc' = "cr1"
  /\ UNCHANGED <<A, Z, I, CLK_PCKENR1, PB_CR1, PB_CR2, PB_ODR, mem8000, mem480b,
                 ALWAYS_SUCCESS, strace,
                 rpVars>>

\* check_empty.c 14
SetCr1 ==
  /\ spc = "cr1"
  /\ PB_CR1' = BitOr(PB_CR1, BitOr(TRIG_PIN, BitOr(SUCCESS_PIN, EXPECTED_PIN)))
  /\ spc' = "cr2"
  /\ UNCHANGED <<A, Z, I, CLK_PCKENR1, PB_DDR, PB_CR2, PB_ODR, mem8000, mem480b,
                 ALWAYS_SUCCESS, strace,
                 rpVars>>

\* the slew setting written to control register 1 a second time
SetCr2_WrongRegister ==
  /\ spc = "cr2"
  /\ PB_CR1' = BitOr(PB_CR1, BitOr(TRIG_PIN, BitOr(SUCCESS_PIN, EXPECTED_PIN)))
  /\ spc' = "trig"
  /\ UNCHANGED <<A, Z, I, CLK_PCKENR1, PB_DDR, PB_CR2, PB_ODR, mem8000, mem480b,
                 ALWAYS_SUCCESS, strace,
                 rpVars>>

\* check_empty.c 15
SetCr2 ==
  /\ spc = "cr2"
  /\ PB_CR2' = BitOr(PB_CR2, BitOr(TRIG_PIN, BitOr(SUCCESS_PIN, EXPECTED_PIN)))
  /\ spc' = "trig"
  /\ UNCHANGED <<A, Z, I, CLK_PCKENR1, PB_DDR, PB_CR1, PB_ODR, mem8000, mem480b,
                 ALWAYS_SUCCESS, strace,
                 rpVars>>

\* the rising edges a write of the data register produces on PB1, PB4, PB5
Edges(old, new) ==
  (IF Bit(old, 1) = 0 /\ Bit(new, 1) = 1 THEN <<"PB1^">> ELSE <<>>)
  \o (IF Bit(old, 4) = 0 /\ Bit(new, 4) = 1 THEN <<"PB4^">> ELSE <<>>)
  \o (IF Bit(old, 5) = 0 /\ Bit(new, 5) = 1 THEN <<"PB5^">> ELSE <<>>)
  \o (IF \E k \in {1, 4, 5} : Bit(old, k) = 1 /\ Bit(new, k) = 0
      THEN <<"fall">> ELSE <<>>)

\* check_empty.c 18
Trigger ==
  /\ spc = "trig"
  /\ PB_ODR' = BitOr(PB_ODR, TRIG_PIN)
  /\ strace' = strace \o Edges(PB_ODR, PB_ODR')
  /\ spc' = "sim"
  /\ UNCHANGED <<A, Z, I, CLK_PCKENR1, PB_DDR, PB_CR1, PB_CR2, mem8000, mem480b,
                 ALWAYS_SUCCESS,
                 rpVars>>

\* rim in place of sim: interrupts are enabled
Sim_Rim ==
  /\ spc = "sim"
  /\ I' = FALSE
  /\ spc' = "ld_8000"
  /\ UNCHANGED <<A, Z, CLK_PCKENR1, PB_DDR, PB_CR1, PB_CR2, PB_ODR, mem8000,
                 mem480b, ALWAYS_SUCCESS, strace,
                 rpVars>>

\* check_empty.c 22: sim
Sim ==
  /\ spc = "sim"
  /\ I' = TRUE
  /\ spc' = "ld_8000"
  /\ UNCHANGED <<A, Z, CLK_PCKENR1, PB_DDR, PB_CR1, PB_CR2, PB_ODR, mem8000,
                 mem480b, ALWAYS_SUCCESS, strace,
                 rpVars>>

\* check_empty.c 23: ld A, 0x8000
Ld8000 ==
  /\ spc = "ld_8000"
  /\ A' = mem8000
  /\ strace' = Append(strace, "ld 0x8000")
  /\ spc' = "cp_82"
  /\ UNCHANGED <<Z, I, CLK_PCKENR1, PB_DDR, PB_CR1, PB_CR2, PB_ODR, mem8000,
                 mem480b, ALWAYS_SUCCESS,
                 rpVars>>

\* check_empty.c 24: cp A, #0x82
Cp82 ==
  /\ spc = "cp_82"
  /\ Z' = (A = 130)
  /\ spc' = "jreq_82"
  /\ UNCHANGED <<A, I, CLK_PCKENR1, PB_DDR, PB_CR1, PB_CR2, PB_ODR, mem8000,
                 mem480b, ALWAYS_SUCCESS, strace,
                 rpVars>>

\* check_empty.c 25: jreq bootl_check
Jreq82 ==
  /\ spc = "jreq_82"
  /\ spc' = IF Z THEN "bootl_check" ELSE "cp_ac"
  /\ UNCHANGED <<A, Z, I, CLK_PCKENR1, PB_DDR, PB_CR1, PB_CR2, PB_ODR, mem8000,
                 mem480b, ALWAYS_SUCCESS, strace,
                 rpVars>>

\* the second candidate compared against the wrong byte
CpAc_WrongByte ==
  /\ spc = "cp_ac"
  /\ Z' = (A = 170)
  /\ spc' = "jreq_ac"
  /\ UNCHANGED <<A, I, CLK_PCKENR1, PB_DDR, PB_CR1, PB_CR2, PB_ODR, mem8000,
                 mem480b, ALWAYS_SUCCESS, strace,
                 rpVars>>

\* check_empty.c 26: cp A, #0xac
CpAc ==
  /\ spc = "cp_ac"
  /\ Z' = (A = 172)
  /\ spc' = "jreq_ac"
  /\ UNCHANGED <<A, I, CLK_PCKENR1, PB_DDR, PB_CR1, PB_CR2, PB_ODR, mem8000,
                 mem480b, ALWAYS_SUCCESS, strace,
                 rpVars>>

\* check_empty.c 27: jreq bootl_check
JreqAc ==
  /\ spc = "jreq_ac"
  /\ spc' = IF Z THEN "bootl_check" ELSE "jra_rdp"
  /\ UNCHANGED <<A, Z, I, CLK_PCKENR1, PB_DDR, PB_CR1, PB_CR2, PB_ODR, mem8000,
                 mem480b, ALWAYS_SUCCESS, strace,
                 rpVars>>

\* the jump is missing: the first part falls through into bootl_check
JraRdp_FallThrough ==
  /\ spc = "jra_rdp"
  /\ spc' = "bootl_check"
  /\ UNCHANGED <<A, Z, I, CLK_PCKENR1, PB_DDR, PB_CR1, PB_CR2, PB_ODR, mem8000,
                 mem480b, ALWAYS_SUCCESS, strace,
                 rpVars>>

\* check_empty.c 28: jra rdp_check
JraRdp ==
  /\ spc = "jra_rdp"
  /\ spc' = "rdp_check"
  /\ UNCHANGED <<A, Z, I, CLK_PCKENR1, PB_DDR, PB_CR1, PB_CR2, PB_ODR, mem8000,
                 mem480b, ALWAYS_SUCCESS, strace,
                 rpVars>>

\* check_empty.c 31: ld A, 0x480b
Ld480b ==
  /\ spc = "bootl_check"
  /\ A' = mem480b
  /\ strace' = Append(strace, "ld 0x480b")
  /\ spc' = "cp_55"
  /\ UNCHANGED <<Z, I, CLK_PCKENR1, PB_DDR, PB_CR1, PB_CR2, PB_ODR, mem8000,
                 mem480b, ALWAYS_SUCCESS,
                 rpVars>>

\* check_empty.c 32: cp A, #0x55
Cp55 ==
  /\ spc = "cp_55"
  /\ Z' = (A = 85)
  /\ spc' = "jreq_55"
  /\ UNCHANGED <<A, I, CLK_PCKENR1, PB_DDR, PB_CR1, PB_CR2, PB_ODR, mem8000,
                 mem480b, ALWAYS_SUCCESS, strace,
                 rpVars>>

\* check_empty.c 33: jreq rdp_check
Jreq55 ==
  /\ spc = "jreq_55"
  /\ spc' = IF Z THEN "rdp_check" ELSE "jra_enter"
  /\ UNCHANGED <<A, Z, I, CLK_PCKENR1, PB_DDR, PB_CR1, PB_CR2, PB_ODR, mem8000,
                 mem480b, ALWAYS_SUCCESS, strace,
                 rpVars>>

\* check_empty.c 34: jra enter_app
JraEnter ==
  /\ spc = "jra_enter"
  /\ spc' = "enter_app"
  /\ UNCHANGED <<A, Z, I, CLK_PCKENR1, PB_DDR, PB_CR1, PB_CR2, PB_ODR, mem8000,
                 mem480b, ALWAYS_SUCCESS, strace,
                 rpVars>>

\* check_empty.c 37: bset 0x5005, #0x4
RdpCheck ==
  /\ spc = "rdp_check"
  /\ PB_ODR' = bset(PB_ODR, 4)
  /\ strace' = strace \o Edges(PB_ODR, PB_ODR')
  /\ spc' = "jra_done"
  /\ UNCHANGED <<A, Z, I, CLK_PCKENR1, PB_DDR, PB_CR1, PB_CR2, mem8000, mem480b,
                 ALWAYS_SUCCESS,
                 rpVars>>

\* the jump is missing: rdp_check falls through into enter_app
JraDone_FallThrough ==
  /\ spc = "jra_done"
  /\ spc' = "enter_app"
  /\ UNCHANGED <<A, Z, I, CLK_PCKENR1, PB_DDR, PB_CR1, PB_CR2, PB_ODR, mem8000,
                 mem480b, ALWAYS_SUCCESS, strace,
                 rpVars>>

\* check_empty.c 38: jra asm_done
JraDone ==
  /\ spc = "jra_done"
  /\ spc' = "asm_done"
  /\ UNCHANGED <<A, Z, I, CLK_PCKENR1, PB_DDR, PB_CR1, PB_CR2, PB_ODR, mem8000,
                 mem480b, ALWAYS_SUCCESS, strace,
                 rpVars>>

\* check_empty.c 41: bset 0x5005, #0x5, falling into asm_done
EnterApp ==
  /\ spc = "enter_app"
  /\ PB_ODR' = bset(PB_ODR, 5)
  /\ strace' = strace \o Edges(PB_ODR, PB_ODR')
  /\ spc' = "asm_done"
  /\ UNCHANGED <<A, Z, I, CLK_PCKENR1, PB_DDR, PB_CR1, PB_CR2, mem8000, mem480b,
                 ALWAYS_SUCCESS,
                 rpVars>>

\* the build option has no effect
AsmDone_NoOption ==
  /\ spc = "asm_done"
  /\ spc' = "idle"
  /\ UNCHANGED <<A, Z, I, CLK_PCKENR1, PB_DDR, PB_CR1, PB_CR2, PB_ODR, mem8000,
                 mem480b, ALWAYS_SUCCESS, strace,
                 rpVars>>

\* check_empty.c 44 and 47: nop, then the block the build option selects
AsmDone ==
  /\ spc = "asm_done"
  /\ spc' = IF ALWAYS_SUCCESS THEN "always_success" ELSE "idle"
  /\ UNCHANGED <<A, Z, I, CLK_PCKENR1, PB_DDR, PB_CR1, PB_CR2, PB_ODR, mem8000,
                 mem480b, ALWAYS_SUCCESS, strace,
                 rpVars>>

\* check_empty.c 49: bset 0x5005, #0x4
AlwaysSuccess ==
  /\ spc = "always_success"
  /\ PB_ODR' = bset(PB_ODR, 4)
  /\ strace' = strace \o Edges(PB_ODR, PB_ODR')
  /\ spc' = "idle"
  /\ UNCHANGED <<A, Z, I, CLK_PCKENR1, PB_DDR, PB_CR1, PB_CR2, mem8000, mem480b,
                 ALWAYS_SUCCESS,
                 rpVars>>

\* check_empty.c 53..54: for (;;) ;
Idle ==
  /\ spc = "idle"
  /\ UNCHANGED <<stmVars, rpVars>>

NextSTM ==
  \/ ClkEnable \/ SetDdr \/ SetCr1 \/ SetCr2 \/ Trigger \/ Sim
  \/ Ld8000 \/ Cp82 \/ Jreq82 \/ CpAc \/ JreqAc \/ JraRdp
  \/ Ld480b \/ Cp55 \/ Jreq55 \/ JraEnter
  \/ RdpCheck \/ JraDone \/ EnterApp \/ AsmDone \/ AlwaysSuccess \/ Idle

InitSTM == InitStm /\ RpOff
SpecSTM == InitSTM /\ [][NextSTM]_vars

\* ------------------------------------------------------------------------
\* Properties of the STM8L probe
\* ------------------------------------------------------------------------
PB1 == Bit(PB_ODR, 1) = 1
PB4 == Bit(PB_ODR, 4) = 1
PB5 == Bit(PB_ODR, 5) = 1

InSTrace(e) == \E i \in DOMAIN strace : strace[i] = e
SPos(e) == IF InSTrace(e) THEN CHOOSE i \in DOMAIN strace : strace[i] = e ELSE 0
SCount(e) == Cardinality({i \in DOMAIN strace : strace[i] = e})

\* the two reset-vector bytes that arm the bootloader, and the option byte
\* value that sends the bootloader arm to the rdp check
Armed(b) == b = 130 \/ b = 172
Protected(o) == o = 85

\* C7: without ALWAYS_SUCCESS, for every pair of bytes b at 0x8000 and o at
\* 0x480B, PB4 ends high iff b is neither 0x82 nor 0xAC or o is 0x55, and PB5
\* ends high iff b is 0x82 or 0xAC and o is not 0x55.
C7_DecisionTree ==
  (spc = "idle" /\ ~ALWAYS_SUCCESS) =>
    /\ PB4 <=> (~Armed(mem8000) \/ Protected(mem480b))
    /\ PB5 <=> (Armed(mem8000) /\ ~Protected(mem480b))

C7_Witness ==
  spc = "idle" /\ ~ALWAYS_SUCCESS /\ mem8000 = 172 /\ mem480b = 0 /\ PB5 /\ ~PB4

\* C8: without ALWAYS_SUCCESS, PB4 and PB5 are never both high.
C8_AtMostOne ==
  ~ALWAYS_SUCCESS => ~(PB4 /\ PB5) /\ SCount("PB4^") + SCount("PB5^") <= 1

C8_Witness ==
  spc = "idle" /\ ~ALWAYS_SUCCESS /\ mem8000 = 130 /\ mem480b = 85 /\ PB4 /\ ~PB5

\* C9: PB1 rises exactly once, before any load of 0x8000 or 0x480B and before
\* PB4 or PB5 is set, and is high in every later state.
C9_TrigOnceAndFirst ==
  /\ SCount("PB1^") <= 1
  /\ ~InSTrace("fall")
  /\ strace # <<>> => strace[1] = "PB1^"
  /\ spc \notin {"clk", "ddr", "cr1", "cr2", "trig"} => PB1 /\ SCount("PB1^") = 1
  /\ spc \in {"clk", "ddr", "cr1", "cr2", "trig"} => ~PB1 /\ ~PB4 /\ ~PB5 /\ strace = <<>>

C9_Witness ==
  spc = "idle" /\ PB1 /\ PB5 /\ InSTrace("ld 0x480b") /\ SPos("PB1^") = 1

\* C10: with ALWAYS_SUCCESS, PB4 is high when the idle loop is reached, for
\* every pair of bytes and whichever branch was taken.
C10_AlwaysSuccess ==
  (spc = "idle" /\ ALWAYS_SUCCESS) => PB4

C10_Witness ==
  spc = "idle" /\ ALWAYS_SUCCESS /\ Armed(mem8000) /\ ~Protected(mem480b)
  /\ PB4 /\ PB5

\* ------------------------------------------------------------------------
\* Further properties of the RP2040 probe
\* ------------------------------------------------------------------------
\* positions of main inside the wait-for-USB loop
Waiting == {"wait", "blink_on", "sleep_on", "blink_off", "sleep_off"}

\* C11: nothing is emitted in the wait loop; while USB is not connected the
\* probe stays in the loop, driving the LED high and then low in turn; the
\* loop is left only on a test that finds USB connected, and then the banner
\* and the prompt are emitted, in that order, before any line is read.
C11_BannerAfterConnect ==
  /\ [](pc \in Waiting \cup {"setup"} =>
          sent = <<>> /\ obuf = <<>> /\ nLines = 0)
  /\ [](pc = "sleep_on" => led = 1)
  /\ [](pc \in {"wait", "blink_on", "sleep_off", "banner"} => led = 0)
  /\ [][(pc \in Waiting /\ ~usb) => pc' \in Waiting]_vars
  /\ [][(pc \in Waiting /\ pc' \notin Waiting) =>
          (pc = "wait" /\ usb /\ pc' = "banner")]_vars
  /\ [](pc = "prompt" => sent = <<Banner>> /\ nLines = 0)
  /\ [](pc = "getline" /\ nLines = 0 /\ cinGood => sent = <<Banner, Prompt>>)
  /\ [](nLines > 0 => Len(sent) >= 2 /\ sent[1] = Banner /\ sent[2] = Prompt)

C11_Witness ==
  pc = "getline" /\ usb /\ nLines = 0 /\ rx # <<>> /\ sent = <<Banner, Prompt>>

\* C12 as stated: whenever USB is disconnected, also after the banner, the
\* probe returns to the wait loop (unless USB is connected again first).
C12_DisconnectReturnsToWaiting ==
  (~usb) ~> (usb \/ pc \in Waiting \cup {"setup"})

\* C12 amended: a disconnection is treated as not-yet-connected only inside
\* the wait loop, where the probe keeps blinking and waiting; once the loop
\* has been left the connection is never tested again, a disconnection does
\* not move the program, and the probe never returns to the wait loop.
C12_DisconnectOnlyInWaitLoop ==
  /\ [][(pc \in Waiting /\ ~usb) => pc' \in Waiting]_vars
  /\ [][pc \notin Waiting \cup {"setup"} => pc' \notin Waiting]_vars
  /\ [][(usb /\ ~usb') => (pc' = pc /\ led' = led /\ sent' = sent)]_vars

C12_Witness ==
  pc = "getline" /\ ~usb /\ nLines > 0 /\ sent[1] = Banner

\* C13: a read that fails without delivering a line starts no measurement and
\* produces no reply: the probe stays at the line read until a line arrives.
C13_FailedReadBlocks ==
  /\ ~cinGood => pc = "getline"
  /\ pc \in Measuring => nLines > Cardinality(Replies)
  /\ Cardinality(Replies) + Len(obuf) <= nLines

C16_FlushedBeforeNextRead ==
  /\ [](pc = "getline" => obuf = <<>>)
  /\ [][nLines' > nLines => (obuf = <<>> /\ Cardinality(Replies) = nLines)]_vars

C16_Witness ==
  pc = "save_mrs" /\ nLines = 2 /\ obuf = <<>> /\ Cardinality(Replies) = 1

\* the states of the probe's state machine
Phase(p) ==
  IF p = "setup" THEN "boot"
  ELSE IF p \in Waiting THEN "waiting-for-USB"
  ELSE IF p \in {"banner", "prompt"} THEN "banner"
  ELSE IF p = "getline" THEN "idle"
  ELSE IF p \in Measuring \cup {"flush"} THEN "measuring"
  ELSE "terminated"

PhaseSteps ==
  {<<"boot", "waiting-for-USB">>, <<"waiting-for-USB", "banner">>,
   <<"banner", "idle">>, <<"idle", "measuring">>, <<"measuring", "idle">>}

\* C17: the probe goes boot, waiting-for-USB, banner, idle and then
\* alternates between idle and measuring; it has no terminal state and never
\* prints 'Jumped out of loop.'; a line that has been read is eventually
\* answered and the probe is idle again.
C17_StateMachine ==
  /\ [](Phase(pc) # "terminated")
  /\ [](\A i \in DOMAIN sent : sent[i] # <<"Jumped out of loop.">>)
  /\ [][Phase(pc') = Phase(pc) \/ <<Phase(pc), Phase(pc')>> \in PhaseSteps]_vars
  /\ (Phase(pc) = "measuring") ~> (pc = "getline" /\ Cardinality(Replies) = nLines)

C17_Witness ==
  /\ Phase(pc) = "idle" /\ nLines = MaxLines /\ rx = <<>>
  /\ Cardinality(Replies) = MaxLines

\* C20: after the banner, GPIO0 high implies LED high and interrupts disabled;
\* while the probe is idle or replying both pins are low and PRIMASK holds its
\* value from before the measurement; the wait loop is left with the LED low,
\* so that the LED write of a measurement is a rising edge.
C20_PinsAndMask ==
  /\ pc \notin Waiting \cup {"setup"} =>
       (gpio0 = 1 => led = 1 /\ PRIMASK = 1)
  /\ pc \in {"getline", "reply", "flush"} =>
       gpio0 = 0 /\ led = 0 /\ PRIMASK = maskAtSave
  /\ pc \in {"banner", "prompt", "led_high"} => led = 0 /\ gpio0 = 0

C20_Witness ==
  pc = "gpio0_low" /\ gpio0 = 1 /\ led = 1 /\ PRIMASK = 1 /\ maskAtSave = 0
  /\ nLines = 1

\* ------------------------------------------------------------------------
\* Further properties of the STM8L probe
\* ------------------------------------------------------------------------
\* the processor never stops
FairSpecSTM == InitSTM /\ [][NextSTM]_vars /\ WF_vars(NextSTM)

\* positions of the pin configuration, before the trigger write
Configuring == {"clk", "ddr", "cr1", "cr2"}

\* PB1, PB4 and PB5 are set in a configuration register
AllThree(reg) == Bit(reg, 1) = 1 /\ Bit(reg, 4) = 1 /\ Bit(reg, 5) = 1

\* C15: PB1, PB4 and PB5 are outputs, push-pull and fast before TRIG is driven
\* and before any branch is decided; from then on only the data register of
\* port B is written and the configuration registers keep their value.
C15_ConfiguredFirst ==
  /\ [](spc \notin Configuring =>
          AllThree(PB_DDR) /\ AllThree(PB_CR1) /\ AllThree(PB_CR2))
  /\ [](spc \in Configuring => PB_ODR = 0 /\ strace = <<>>)
  /\ [][spc \notin Configuring =>
          UNCHANGED <<PB_DDR, PB_CR1, PB_CR2, CLK_PCKENR1, mem8000, mem480b>>]_vars

C15_Witness ==
  /\ spc = "idle" /\ PB1 /\ PB4
  /\ AllThree(PB_DDR) /\ AllThree(PB_CR1) /\ AllThree(PB_CR2)

\* order of the positions of the program text
Rank(p) ==
  CASE p = "clk" -> 1 [] p = "ddr" -> 2 [] p = "cr1" -> 3 [] p = "cr2" -> 4
    [] p = "trig" -> 5 [] p = "sim" -> 6 [] p = "ld_8000" -> 7
    [] p = "cp_82" -> 8 [] p = "jreq_82" -> 9 [] p = "cp_ac" -> 10
    [] p = "jreq_ac" -> 11 [] p = "jra_rdp" -> 12 [] p = "bootl_check" -> 13
    [] p = "cp_55" -> 14 [] p = "jreq_55" -> 15 [] p = "jra_enter" -> 16
    [] p = "rdp_check" -> 17 [] p = "jra_done" -> 18 [] p = "enter_app" -> 19
    [] p = "asm_done" -> 20 [] p = "always_success" -> 21 [] p = "idle" -> 22
    [] OTHER -> 0

\* C18: interrupts are disabled before the first load and never enabled
\* again; no step of the tree goes backwards; every run reaches the idle loop
\* and stays there with the pin levels unchanged.
C18_LinearIntoIdle ==
  /\ [](Rank(spc) > Rank("sim") => I)
  /\ [](strace # <<>> /\ strace[Len(strace)] \in {"ld 0x8000", "ld 0x480b"} => I)
  /\ [][I => I']_vars
  /\ [][spc # "idle" => Rank(spc') > Rank(spc)]_vars
  /\ [][spc = "idle" => (spc' = "idle" /\ PB_ODR' = PB_ODR)]_vars
  /\ <>[](spc = "idle")

C18_Witness ==
  spc = "idle" /\ I /\ InSTrace("ld 0x480b") /\ PB4 /\ ~PB5

\* C19: 0x480B is read only in runs where the byte at 0x8000 is 0x82 or 0xAC,
\* and after the load and comparison of that byte; for any other value the
\* run reaches rdp_check without reading 0x480B; 0x82 is compared first and
\* 0xAC in a second compare-and-branch step.
C19_OptionByteOnlyWhenArmed ==
  /\ InSTrace("ld 0x480b") =>
       /\ Armed(mem8000)
       /\ InSTrace("ld 0x8000") /\ SPos("ld 0x8000") < SPos("ld 0x480b")
  /\ spc = "bootl_check" => A = mem8000 /\ Armed(A) /\ Z
  /\ spc \in {"cp_ac", "jreq_ac"} => A = mem8000 /\ A # 130
  /\ spc = "jreq_82" => (Z <=> mem8000 = 130)
  /\ spc = "jreq_ac" => (Z <=> mem8000 = 172)
  /\ spc = "jra_rdp" => ~Armed(mem8000)
  /\ (Rank(spc) >= Rank("rdp_check") /\ ~Armed(mem8000)) =>
       ~InSTrace("ld 0x480b") /\ spc # "enter_app"
  /\ (Rank(spc) >= Rank("rdp_check") /\ Armed(mem8000)) => InSTrace("ld 0x480b")

C19_Witness ==
  spc = "rdp_check" /\ mem8000 = 0 /\ mem480b = 0 /\ ~InSTrace("ld 0x480b")

====
